---- MODULE Spec2Model ----
(***************************************************************************)
(* A model of SWAMPy's read-generation pipeline (src/src/art_runner.py)    *)
(* and of the main script that drives it (src/src/simulate_metagenome.py). *)
(*                                                                         *)
(* File names are sequences of character codes, so that Python's sorted()  *)
(* and the slice x[-4:] are computed as the code computes them.  A file's  *)
(* content is a sequence of lines, a line a sequence of tokens; "&", "/",  *)
(* "\t" and "\n" are tokens of their own, which is all that paste, shuf    *)
(* and tr look at.                                                         *)
(***************************************************************************)
EXTENDS Integers, Sequences, FiniteSets, Bags, TLC

\* ------------------------------------------------------------- bounds
MaxAmplicons == 2
MaxReads == 2
NumKeys == 2
\* abundances are multiples of 1/Unit, from -1/Unit to MaxWeight/Unit
Unit == 2
MaxWeight == 2
\* the rows align_primers may return for one genome
MaxRows == 2
\* the read budget (--n_reads)
N_READS == 2

\* ---------------------------------------------------- program constants
\* 0.000000001 is 1/Tolerance
Tolerance == 1000000000
\* the positional arguments the main script passes to art_illumina
ArgsPassed == 5
\* the parameters art_illumina declares, none with a default
ArgsDeclared == 7

\* ---------------------------------------------------------- variables
VARIABLES
    active,          \* the runs (uses of the art_illumina scope) of this behaviour
    faulty,          \* whether the external tools may fail and statements may raise
    amplicons,       \* run -> the template list passed to ArtIllumina.run
    n_reads,         \* run -> the read counts passed to ArtIllumina.run
    pc,              \* run -> position in the with-block / the finally clause
    idx,             \* run -> position of the for loop over zip(amplicons, n_reads)
    tempdir,         \* the temp directory: file name -> [content, creator]
    outdir,          \* run -> mate -> content of {prefix}_R<mate>.fastq, when it exists
    all_r1_files,    \* run -> the sorted mate-1 file list
    all_r2_files,    \* run -> the sorted mate-2 file list
    todo,            \* run -> the glob result the finally clause still has to remove
    exc,             \* run -> the exception propagating out of the scope ("none")
    invoked,         \* run -> log of the art_illumina invocations made
    shufstatus,      \* run -> mate -> exit status of the shell pipeline
    created,         \* every temp file name ever created
    removed,         \* bag of the os.remove calls that succeeded, by file name
    interfered,      \* a run read, overwrote or removed a temp file of another run
    mpc,             \* main script: position
    genome_abundances, \* main script: genome -> <<numerator, denominator>>
    total,           \* main script: sum(genome_abundances.values()), in 1/Unit
    genomes_split,   \* main script: the genome file has been split into per-genome files
    genome_counter,  \* main script: genomes handled by STEP 2
    extracted,       \* main script: genome -> number of rows align_primers returned
    df_amplicons,    \* main script: the rows of the amplicon table
    genome_memo,     \* sampler cache: genome -> genome-level read count
    amplicon_memo,   \* sampler cache: genome -> amplicon number -> read count
    col,             \* main script: row being filled by the current apply
    mexit,           \* main script: how the process ended ("running")
    final_files      \* main script: final FASTQ files present in the output folder

runVars == <<active, faulty, amplicons, n_reads, pc, idx, tempdir, outdir, all_r1_files,
             all_r2_files, todo, exc, invoked, shufstatus, created, removed,
             interfered>>
mainVars == <<mpc, genome_abundances, total, genomes_split, genome_counter, extracted,
              df_amplicons, genome_memo, amplicon_memo, col, mexit, final_files>>
vars == <<runVars, mainVars>>

Mates == {1, 2}

\* ------------------------------------------------------- file names
\* "tmp.sms."
TmpPrefix == <<116, 109, 112, 46, 115, 109, 115, 46>>
\* "1.fq" and "2.fq"
MateSuffix(m) == IF m = 1 THEN <<49, 46, 102, 113>> ELSE <<50, 46, 102, 113>>
\* "tmp.sms.all_files_unshuffled<m>.fastq"
UnshuffledName(m) ==
    <<116, 109, 112, 46, 115, 109, 115, 46, 97, 108, 108, 95, 102, 105, 108, 101,
      115, 95, 117, 110, 115, 104, 117, 102, 102, 108, 101, 100>>
    \o (IF m = 1 THEN <<49>> ELSE <<50>>) \o <<46, 102, 97, 115, 116, 113>>
\* "tmp.sms.random_data"
RandomDataName ==
    <<116, 109, 112, 46, 115, 109, 115, 46, 114, 97, 110, 100, 111, 109, 95, 100,
      97, 116, 97>>

\* The templates: a path and the sequence identifier in the FASTA file.
\* "x/a.fasta", "x/a.2.fasta", "x/b.fasta"; the third identifier is a genome
\* description whose "/" was escaped to "&".
Templates ==
    { [path |-> <<120, 47, 97, 46, 102, 97, 115, 116, 97>>, seqid |-> <<"a">>],
      [path |-> <<120, 47, 97, 46, 50, 46, 102, 97, 115, 116, 97>>, seqid |-> <<"a2">>],
      [path |-> <<120, 47, 98, 46, 102, 97, 115, 116, 97>>, seqid |-> <<"g", "&", "b">>] }

RECURSIVE LastIndexOf(_, _)
\* the greatest index of c in s, 0 when there is none
LastIndexOf(s, c) ==
    IF s = <<>> THEN 0
    ELSE IF s[Len(s)] = c THEN Len(s)
    ELSE LastIndexOf(SubSeq(s, 1, Len(s) - 1), c)

\* os.path.basename: what follows the last "/"
basename(p) == SubSeq(p, LastIndexOf(p, 47) + 1, Len(p))

\* ".".join(basename(a).split(".")[:-1]): what precedes the last ".", or ""
short_name(a) ==
    LET b == basename(a)
        d == LastIndexOf(b, 46)
    IN  IF d = 0 THEN <<>> ELSE SubSeq(b, 1, d - 1)

\* join(self.temp, "tmp.sms.") + short_name + "."
out_prefix(a) == TmpPrefix \o short_name(a) \o <<46>>

\* the two files art_illumina writes: prefix + "1.fq", prefix + "2.fq"
MateFile(a, m) == out_prefix(a) \o MateSuffix(m)

HasPrefix(s, p) == Len(s) >= Len(p) /\ SubSeq(s, 1, Len(p)) = p

\* x[-4:]: the last four characters (all of x when it is shorter)
Last4(x) == IF Len(x) <= 4 THEN x ELSE SubSeq(x, Len(x) - 3, Len(x))

\* glob.glob(join(temp, "tmp.sms.*"))
GlobTmp(dir) == {f \in DOMAIN dir : HasPrefix(f, TmpPrefix)}

RECURSIVE LexLess(_, _)
\* Python's str comparison: lexicographic by code point
LexLess(a, b) ==
    IF a = <<>> THEN b # <<>>
    ELSE IF b = <<>> THEN FALSE
    ELSE IF Head(a) = Head(b) THEN LexLess(Tail(a), Tail(b))
    ELSE Head(a) < Head(b)

RECURSIVE sorted(_)
\* Python's sorted() of a set of distinct names
sorted(S) ==
    IF S = {} THEN <<>>
    ELSE LET m == CHOOSE x \in S : \A y \in S \ {x} : LexLess(x, y)
         IN  <<m>> \o sorted(S \ {m})

\* sorted([x for x in glob(...) if x[-4:] == "<m>.fq"])
MateFiles(dir, m) == sorted({x \in GlobTmp(dir) : Last4(x) = MateSuffix(m)})

\* ---------------------------------------------------- FASTQ content
\* read pair k of a template, mate m: four lines
Record(t, k, m) ==
    << <<"@">> \o t.seqid \o <<"-", ToString(k), "/", ToString(m)>>,
       <<"ACGT", ToString(m)>>,
       <<"+">>,
       <<"?">> >>

RECURSIVE Fastq(_, _, _)
\* what art_illumina --rcount n writes to mate file m
Fastq(t, n, m) == IF n = 0 THEN <<>> ELSE Fastq(t, n - 1, m) \o Record(t, n, m)

RECURSIVE Records(_)
\* a file's lines in groups of four
Records(lines) ==
    IF Len(lines) = 0 THEN <<>>
    ELSE IF Len(lines) <= 4 THEN <<lines>>
    ELSE <<SubSeq(lines, 1, 4)>> \o Records(SubSeq(lines, 5, Len(lines)))

RECURSIVE BagOfSeq(_)
BagOfSeq(s) == IF s = <<>> THEN EmptyBag ELSE SetToBag({Head(s)}) (+) BagOfSeq(Tail(s))

\* the read identifier of a record without its mate suffix ("/", mate)
ReadId(rec) == SubSeq(rec[1], 1, Len(rec[1]) - 2)

\* ------------------------------------------------ the shell pipeline
RECURSIVE PasteStream(_, _)
\* paste -s -d '\t\t\t\n': the lines joined into one stream, the delimiters cycling
PasteStream(lines, j) ==
    IF lines = <<>> THEN <<>>
    ELSE Head(lines)
         \o (IF Len(lines) = 1 \/ j % 4 = 0 THEN <<"\n">> ELSE <<"\t">>)
         \o PasteStream(Tail(lines), j + 1)

RECURSIVE SplitLines(_, _, _)
\* a stream cut at its newlines
SplitLines(stream, cur, acc) ==
    IF stream = <<>> THEN (IF cur = <<>> THEN acc ELSE Append(acc, cur))
    ELSE IF Head(stream) = "\n" THEN SplitLines(Tail(stream), <<>>, Append(acc, cur))
    ELSE SplitLines(Tail(stream), Append(cur, Head(stream)), acc)

RECURSIVE JoinLines(_)
JoinLines(lines) ==
    IF lines = <<>> THEN <<>> ELSE Head(lines) \o <<"\n">> \o JoinLines(Tail(lines))

\* the permutation shuf draws from a random source for n input lines: a function
\* of the source's bytes and of n alone
ShufPermConst(k, n) == [i \in 1..n |-> 1]
ShufPerm(k, n) == [i \in 1..n |-> ((i - 1 + k) % n) + 1]

\* shuf --random-source=<key file>
Shuf(lines, k) ==
    LET p == ShufPerm(k, Len(lines))
    IN  [i \in 1..Len(lines) |-> lines[p[i]]]

\* tr '\t&' '\n/'
TrChar(c) == IF c = "\t" THEN "\n" ELSE IF c = "&" THEN "/" ELSE c
Tr(stream) == [i \in 1..Len(stream) |-> TrChar(stream[i])]

\* the key a random_data file holds
KeyOf(content) == CHOOSE k \in 1..NumKeys : content = << <<ToString(k)>> >>

\* paste ... input | shuf --random-source=key | tr ... > output, when every
\* stage succeeds
shuffle_fastq_file(lines, k) ==
    SplitLines(Tr(JoinLines(Shuf(SplitLines(PasteStream(lines, 1), <<>>, <<>>), k))),
               <<>>, <<>>)

\* what the redirection leaves under the output name when the pipeline fails
PartialOutputs(full) ==
    {SubSeq(full, 1, l) : l \in 0..(IF Len(full) > 1 THEN 1 ELSE 0)}

\* ------------------------------------------------- the temp directory
NoFiles == [f \in {} |-> 0]

WriteFile(dir, f, c, r) ==
    [x \in DOMAIN dir \cup {f} |-> IF x = f THEN [content |-> c, creator |-> r] ELSE dir[x]]

RemoveFile(dir, f) == [x \in DOMAIN dir \ {f} |-> dir[x]]

Foreign(dir, f, r) == f \in DOMAIN dir /\ dir[f].creator # r

RECURSIVE Concat(_, _)
\* shutil.copyfileobj of each listed file in turn, up to the first that is missing
Concat(files, dir) ==
    IF files = <<>> \/ Head(files) \notin DOMAIN dir THEN <<>>
    ELSE dir[Head(files)].content \o Concat(Tail(files), dir)

AllPresent(files, dir) == \A i \in 1..Len(files) : files[i] \in DOMAIN dir

SeqRange(s) == {s[i] : i \in 1..Len(s)}

BodyPcs == {"gen", "glob1", "glob2", "concat1", "concat2", "keygen", "shuffle1", "shuffle2"}

\* the exit statuses an external command may end with
Statuses == IF faulty THEN {"ok", "fail"} ELSE {"ok"}

\* -------------------------------------------------------------- Init
MainIdle ==
    /\ mpc = "idle"
    /\ genome_abundances = <<>>
    /\ total = 0
    /\ genomes_split = FALSE
    /\ genome_counter = 0
    /\ extracted = <<>>
    /\ df_amplicons = <<>>
    /\ genome_memo = <<>>
    /\ amplicon_memo = <<>>
    /\ col = 0
    /\ mexit = "running"
    /\ final_files = {}

\* the template lists: distinct template files, in any order
TemplateLists ==
    {l \in UNION {[1..n -> Templates] : n \in 1..MaxAmplicons} :
        \A i, j \in 1..Len(l) : i # j => l[i] # l[j]}

RunInit(A, F) ==
    /\ active = A
    /\ faulty = F
    /\ amplicons \in [A -> TemplateLists]
    /\ n_reads \in {c \in [A -> UNION {[1..n -> 0..MaxReads] : n \in 1..MaxAmplicons}] :
                      \A r \in A : Len(c[r]) = Len(amplicons[r])}
    /\ pc = [r \in A |-> "gen"]
    /\ idx = [r \in A |-> 1]
    /\ tempdir = NoFiles
    /\ outdir = [r \in A |-> NoFiles]
    /\ all_r1_files = [r \in A |-> <<>>]
    /\ all_r2_files = [r \in A |-> <<>>]
    /\ todo = [r \in A |-> <<>>]
    /\ exc = [r \in A |-> "none"]
    /\ invoked = [r \in A |-> <<>>]
    /\ shufstatus = [r \in A |-> NoFiles]
    /\ created = {}
    /\ removed = EmptyBag
    /\ interfered = FALSE

\* one use of the scope
Init == RunInit({1}, TRUE) /\ MainIdle

\* ----------------------------------------------------- ArtIllumina.run
\* one iteration of the for loop: run_once for the pair (a, n).  The exit status of
\* art_illumina is not looked at; a failed invocation writes no file.
RunOnce(r) ==
    /\ pc[r] = "gen"
    /\ idx[r] <= Len(amplicons[r])
    /\ LET a == amplicons[r][idx[r]]
           n == n_reads[r][idx[r]]
       IN  \E st \in Statuses :
             /\ invoked' = [invoked EXCEPT ![r] = Append(@, [n |-> n, status |-> st])]
             /\ IF st = "ok"
                THEN /\ tempdir' = WriteFile(WriteFile(tempdir, MateFile(a.path, 1),
                                                       Fastq(a, n, 1), r),
                                             MateFile(a.path, 2), Fastq(a, n, 2), r)
                     /\ created' = created \cup {MateFile(a.path, 1), MateFile(a.path, 2)}
                     /\ interfered' = (interfered \/ Foreign(tempdir, MateFile(a.path, 1), r)
                                                  \/ Foreign(tempdir, MateFile(a.path, 2), r))
                ELSE UNCHANGED <<tempdir, created, interfered>>
    /\ idx' = [idx EXCEPT ![r] = @ + 1]
    /\ UNCHANGED <<active, faulty, amplicons, n_reads, pc, outdir, all_r1_files, all_r2_files,
                   todo, exc, shufstatus, removed, mainVars>>

\* the loop is exhausted
LoopDone(r) ==
    /\ pc[r] = "gen"
    /\ idx[r] > Len(amplicons[r])
    /\ pc' = [pc EXCEPT ![r] = "glob1"]
    /\ UNCHANGED <<active, faulty, amplicons, n_reads, idx, tempdir, outdir, all_r1_files,
                   all_r2_files, todo, exc, invoked, shufstatus, created, removed,
                   interfered, mainVars>>

Glob1(r) ==
    /\ pc[r] = "glob1"
    /\ all_r1_files' = [all_r1_files EXCEPT ![r] = MateFiles(tempdir, 1)]
    /\ pc' = [pc EXCEPT ![r] = "glob2"]
    /\ UNCHANGED <<active, faulty, amplicons, n_reads, idx, tempdir, outdir, all_r2_files,
                   todo, exc, invoked, shufstatus, created, removed, interfered, mainVars>>

Glob2(r) ==
    /\ pc[r] = "glob2"
    /\ all_r2_files' = [all_r2_files EXCEPT ![r] = MateFiles(tempdir, 2)]
    /\ pc' = [pc EXCEPT ![r] = "concat1"]
    /\ UNCHANGED <<active, faulty, amplicons, n_reads, idx, tempdir, outdir, all_r1_files,
                   todo, exc, invoked, shufstatus, created, removed, interfered, mainVars>>

\* the with-block that fills tmp.sms.all_files_unshuffled<m>.fastq; open(r1) raises
\* when a listed file is gone
ConcatMate(r, m, files, next) ==
    /\ tempdir' = WriteFile(tempdir, UnshuffledName(m), Concat(files, tempdir), r)
    /\ created' = created \cup {UnshuffledName(m)}
    /\ interfered' = (interfered \/ Foreign(tempdir, UnshuffledName(m), r)
                        \/ \E i \in 1..Len(files) :
                             /\ Foreign(tempdir, files[i], r)
                             /\ AllPresent(SubSeq(files, 1, i), tempdir))
    /\ IF AllPresent(files, tempdir)
       THEN pc' = [pc EXCEPT ![r] = next] /\ exc' = exc
       ELSE pc' = [pc EXCEPT ![r] = "finally"]
            /\ exc' = [exc EXCEPT ![r] = "FileNotFoundError"]
    /\ UNCHANGED <<active, faulty, amplicons, n_reads, idx, outdir, all_r1_files, all_r2_files,
                   todo, invoked, shufstatus, removed, mainVars>>

Concat1(r) == pc[r] = "concat1" /\ ConcatMate(r, 1, all_r1_files[r], "concat2")

Concat2(r) == pc[r] = "concat2" /\ ConcatMate(r, 2, all_r2_files[r], "keygen")

\* the shuffle key: np.random.choice over the alphabet, written to tmp.sms.random_data
KeyGen(r) ==
    /\ pc[r] = "keygen"
    /\ \E k \in 1..NumKeys :
         tempdir' = WriteFile(tempdir, RandomDataName, << <<ToString(k)>> >>, r)
    /\ created' = created \cup {RandomDataName}
    /\ interfered' = (interfered \/ Foreign(tempdir, RandomDataName, r))
    /\ pc' = [pc EXCEPT ![r] = "shuffle1"]
    /\ UNCHANGED <<active, faulty, amplicons, n_reads, idx, outdir, all_r1_files, all_r2_files,
                   todo, exc, invoked, shufstatus, removed, mainVars>>

\* os.system(pipeline): the redirection creates the output file whatever happens, and
\* the status os.system returns is dropped
ShuffleMate(r, m, next) ==
    /\ \E st \in Statuses :
         LET ready == UnshuffledName(m) \in DOMAIN tempdir /\ RandomDataName \in DOMAIN tempdir
             full == shuffle_fastq_file(tempdir[UnshuffledName(m)].content,
                                        KeyOf(tempdir[RandomDataName].content))
         IN  /\ \E c \in (IF ~ready THEN {<<>>}
                          ELSE IF st = "ok" THEN {full} ELSE PartialOutputs(full)) :
                   outdir' = [outdir EXCEPT ![r] = WriteFile(@, m, c, r)]
             /\ shufstatus' = [shufstatus EXCEPT ![r] =
                                  [x \in DOMAIN @ \cup {m} |->
                                      IF x = m THEN (IF ready THEN st ELSE "fail") ELSE @[x]]]
    /\ pc' = [pc EXCEPT ![r] = next]
    /\ UNCHANGED <<active, faulty, amplicons, n_reads, idx, tempdir, all_r1_files, all_r2_files,
                   todo, exc, invoked, created, removed, interfered, mainVars>>

Shuffle1(r) == pc[r] = "shuffle1" /\ ShuffleMate(r, 1, "shuffle2")

\* after the second shuffle run() returns and the with-block ends normally
Shuffle2(r) == pc[r] = "shuffle2" /\ ShuffleMate(r, 2, "finally")

\* an exception raised by the statement the body is at (OSError from subprocess.run
\* or open, MemoryError, KeyboardInterrupt): control passes to the finally clause
Raise(r) ==
    /\ faulty
    /\ pc[r] \in BodyPcs
    /\ exc' = [exc EXCEPT ![r] = "Exception"]
    /\ pc' = [pc EXCEPT ![r] = "finally"]
    /\ UNCHANGED <<active, faulty, amplicons, n_reads, idx, tempdir, outdir, all_r1_files,
                   all_r2_files, todo, invoked, shufstatus, created, removed,
                   interfered, mainVars>>

\* ------------------------------------------- art_illumina's finally clause
\* the names the finally clause's glob matches
CleanupMatchesFq(f) == HasPrefix(f, TmpPrefix) /\ SubSeq(Last4(f), 2, 4) = <<46, 102, 113>>
CleanupMatches(f) == HasPrefix(f, TmpPrefix)

CleanupGlob(r) ==
    /\ pc[r] = "finally"
    /\ todo' = [todo EXCEPT ![r] = sorted({f \in DOMAIN tempdir : CleanupMatches(f)})]
    /\ pc' = [pc EXCEPT ![r] = "cleanup"]
    /\ UNCHANGED <<active, faulty, amplicons, n_reads, idx, tempdir, outdir, all_r1_files,
                   all_r2_files, exc, invoked, shufstatus, created, removed,
                   interfered, mainVars>>

\* one os.remove(tem), the glob's list taken in sorted order; it raises when the
\* file is gone, which ends the loop
CleanupRemove(r) ==
    /\ pc[r] = "cleanup"
    /\ todo[r] # <<>>
    /\ LET f == Head(todo[r])
       IN  IF f \in DOMAIN tempdir
           THEN /\ tempdir' = RemoveFile(tempdir, f)
                /\ removed' = removed (+) SetToBag({f})
                /\ interfered' = (interfered \/ Foreign(tempdir, f, r))
                /\ todo' = [todo EXCEPT ![r] = Tail(@)]
                /\ UNCHANGED <<pc, exc>>
           ELSE /\ exc' = [exc EXCEPT ![r] = "FileNotFoundError"]
                /\ pc' = [pc EXCEPT ![r] = "exited"]
                /\ todo' = [todo EXCEPT ![r] = <<>>]
                /\ UNCHANGED <<tempdir, removed, interfered>>
    /\ UNCHANGED <<active, faulty, amplicons, n_reads, idx, outdir, all_r1_files, all_r2_files,
                   invoked, shufstatus, created, mainVars>>

\* the scope has been left; exc[r] propagates to the caller
ScopeExit(r) ==
    /\ pc[r] = "cleanup"
    /\ todo[r] = <<>>
    /\ pc' = [pc EXCEPT ![r] = "exited"]
    /\ UNCHANGED <<active, faulty, amplicons, n_reads, idx, tempdir, outdir, all_r1_files,
                   all_r2_files, todo, exc, invoked, shufstatus, created, removed,
                   interfered, mainVars>>

Next ==
    \/ \E r \in active : RunOnce(r)
    \/ \E r \in active : LoopDone(r)
    \/ \E r \in active : Glob1(r)
    \/ \E r \in active : Glob2(r)
    \/ \E r \in active : Concat1(r)
    \/ \E r \in active : Concat2(r)
    \/ \E r \in active : KeyGen(r)
    \/ \E r \in active : Shuffle1(r)
    \/ \E r \in active : Shuffle2(r)
    \/ \E r \in active : Raise(r)
    \/ \E r \in active : CleanupGlob(r)
    \/ \E r \in active : CleanupRemove(r)
    \/ \E r \in active : ScopeExit(r)

Spec == Init /\ [][Next]_vars

\* two uses of the scope sharing one temp directory, each generating one template,
\* every external tool succeeding and no statement raising of its own
InitTwo ==
    /\ RunInit({1, 2}, FALSE)
    /\ \A r \in active : Len(amplicons[r]) = 1 /\ n_reads[r] = <<1>>
    /\ amplicons[1][1].seqid = <<"a">>
    /\ amplicons[2][1].seqid = <<"g", "&", "b">>
    /\ MainIdle

NextTwo ==
    \/ \E r \in active : RunOnce(r)
    \/ \E r \in active : LoopDone(r)
    \/ \E r \in active : Glob1(r)
    \/ \E r \in active : Glob2(r)
    \/ \E r \in active : Concat1(r)
    \/ \E r \in active : Concat2(r)
    \/ \E r \in active : KeyGen(r)
    \/ \E r \in active : Shuffle1(r)
    \/ \E r \in active : Shuffle2(r)
    \/ \E r \in active : CleanupGlob(r)
    \/ \E r \in active : CleanupRemove(r)
    \/ \E r \in active : ScopeExit(r)

SpecTwo == InitTwo /\ [][NextTwo]_vars

\* ------------------------------------------------- the main script
GenomeOrder == <<"gA", "gB">>
Genomes == SeqRange(GenomeOrder)

RECURSIVE SumOver(_, _)
SumOver(f, S) ==
    IF S = {} THEN 0
    ELSE LET x == CHOOSE y \in S : TRUE IN f[x] + SumOver(f, S \ {x})

Abs(x) == IF x < 0 THEN -x ELSE x

\* the genomes of the abundance file, in file order
GenomeList == SelectSeq(GenomeOrder, LAMBDA g : g \in DOMAIN genome_abundances)

\* the abundance file has been read: every weight is w/Unit
InitMain ==
    /\ RunInit({}, FALSE)
    /\ mpc = "read"
    /\ \E G \in SUBSET Genomes \ {{}} :
         genome_abundances \in [G -> {<<w, Unit>> : w \in -1..MaxWeight}]
    /\ total = 0
    /\ genomes_split = FALSE
    /\ genome_counter = 0
    /\ extracted = <<>>
    /\ df_amplicons = <<>>
    /\ genome_memo = <<>>
    /\ amplicon_memo = <<>>
    /\ col = 0
    /\ mexit = "running"
    /\ final_files = {}

\* abs(sum(genome_abundances.values()) - 1) > 0.000000001, the sum t in 1/Unit
OffOne(t) == Abs(t - Unit) > Unit \div Tolerance

\* total <= 0
InvalidTotalStrict(t) == t < 0
InvalidTotal(t) == t <= 0

\* lines 234-244: the check of the total, exit(1), the rescaling
Normalize ==
    /\ mpc = "read"
    /\ LET t == SumOver([g \in DOMAIN genome_abundances |-> genome_abundances[g][1]],
                        DOMAIN genome_abundances)
       IN  /\ total' = t
           /\ IF ~OffOne(t)
              THEN /\ mpc' = "split"
                   /\ UNCHANGED <<genome_abundances, mexit>>
              ELSE IF InvalidTotal(t)
              THEN /\ mpc' = "terminated"
                   /\ mexit' = "exit1"
                   /\ UNCHANGED genome_abundances
              ELSE IF t = 0
              THEN /\ mpc' = "terminated"
                   /\ mexit' = "ZeroDivisionError"
                   /\ UNCHANGED genome_abundances
              ELSE /\ mpc' = "split"
                   /\ genome_abundances' =
                        [g \in DOMAIN genome_abundances |-> <<genome_abundances[g][1], t>>]
                   /\ UNCHANGED mexit
    /\ UNCHANGED <<genomes_split, genome_counter, extracted, df_amplicons, genome_memo,
                   amplicon_memo, col, final_files, runVars>>

\* lines 249-252: one FASTA file per genome
SplitGenomes ==
    /\ mpc = "split"
    /\ genomes_split' = TRUE
    /\ mpc' = "step2"
    /\ UNCHANGED <<genome_abundances, total, genome_counter, extracted, df_amplicons,
                   genome_memo, amplicon_memo, col, mexit, final_files, runVars>>

\* the rows of one genome's primer alignment, the abundance column set
AmpliconRows(g, k) ==
    [j \in 1..k |-> [ref |-> g, amplicon_number |-> j,
                     abundance |-> genome_abundances[g],
                     genome_n_reads |-> -1, n_reads |-> -1]]

\* STEP 2, one genome: align_primers returns k rows; df["ref"][0] raises KeyError
\* on a table without rows
AmpliconStep ==
    /\ mpc = "step2"
    /\ genome_counter < Len(GenomeList)
    /\ LET g == GenomeList[genome_counter + 1]
       IN  \E k \in 0..MaxRows :
             /\ extracted' = [x \in DOMAIN extracted \cup {g} |->
                                 IF x = g THEN k ELSE extracted[x]]
             /\ IF k = 0
                THEN /\ mpc' = "terminated"
                     /\ mexit' = "KeyError"
                     /\ UNCHANGED df_amplicons
                ELSE /\ df_amplicons' = df_amplicons \o AmpliconRows(g, k)
                     /\ UNCHANGED <<mpc, mexit>>
    /\ genome_counter' = genome_counter + 1
    /\ UNCHANGED <<genome_abundances, total, genomes_split, genome_memo, amplicon_memo,
                   col, final_files, runVars>>

\* lines 281-288: the samplers are built, their caches empty
MakeSamplers ==
    /\ mpc = "step2"
    /\ genome_counter = Len(GenomeList)
    /\ genome_memo' = <<>>
    /\ amplicon_memo' = <<>>
    /\ col' = 1
    /\ mpc' = "genome_col"
    /\ UNCHANGED <<genome_abundances, total, genomes_split, genome_counter, extracted,
                   df_amplicons, mexit, final_files, runVars>>

\* Multinomial(N_READS, abundance vector): one count per genome of the table
GenomeDraws ==
    {c \in [DOMAIN genome_abundances -> 0..N_READS] :
        SumOver(c, DOMAIN genome_abundances) = N_READS}

\* genome_count_sampler: the draw over all genomes is made once and cached
genome_count_sampler(memo) == IF memo = <<>> THEN GenomeDraws ELSE {memo}

\* Multinomial(genome count, amplicon probabilities): one count per amplicon
AmpliconDraws(g, n) ==
    LET A == {df_amplicons[i].amplicon_number : i \in {j \in 1..Len(df_amplicons) :
                                                        df_amplicons[j].ref = g}}
    IN  {c \in [A -> 0..n] : SumOver(c, A) = n}

\* amplicon_reads_sampler: the draw for a genome is made once and cached
amplicon_reads_sampler(memo, row) ==
    IF row.ref \in DOMAIN memo THEN {memo[row.ref]}
    ELSE AmpliconDraws(row.ref, row.genome_n_reads)

\* line 295: df_amplicons["genome_n_reads"], one row of the apply
GenomeCountRow ==
    /\ mpc = "genome_col"
    /\ col <= Len(df_amplicons)
    /\ \E d \in genome_count_sampler(genome_memo) :
         /\ genome_memo' = d
         /\ df_amplicons' = [df_amplicons EXCEPT ![col].genome_n_reads =
                                d[df_amplicons[col].ref]]
    /\ col' = col + 1
    /\ UNCHANGED <<mpc, genome_abundances, total, genomes_split, genome_counter,
                   extracted, amplicon_memo, mexit, final_files, runVars>>

GenomeColDone ==
    /\ mpc = "genome_col"
    /\ col > Len(df_amplicons)
    /\ col' = 1
    /\ mpc' = "reads_col"
    /\ UNCHANGED <<genome_abundances, total, genomes_split, genome_counter, extracted,
                   df_amplicons, genome_memo, amplicon_memo, mexit, final_files, runVars>>

\* the value the n_reads column takes in a row: the amplicon's share of the draw
NReadsCellGenome(row, vec) == row.genome_n_reads
NReadsCell(row, vec) == vec[row.amplicon_number]

\* line 301: df_amplicons["n_reads"], one row of the apply
AmpliconReadsRow ==
    /\ mpc = "reads_col"
    /\ col <= Len(df_amplicons)
    /\ LET row == df_amplicons[col]
       IN  \E v \in amplicon_reads_sampler(amplicon_memo, row) :
             /\ amplicon_memo' = [x \in DOMAIN amplicon_memo \cup {row.ref} |->
                                     IF x = row.ref THEN v ELSE amplicon_memo[x]]
             /\ df_amplicons' = [df_amplicons EXCEPT ![col].n_reads = NReadsCell(row, v)]
    /\ col' = col + 1
    /\ UNCHANGED <<mpc, genome_abundances, total, genomes_split, genome_counter,
                   extracted, genome_memo, mexit, final_files, runVars>>

\* lines 303-348: the summary is written, the (amplicon, read count) list is built
ReadsColDone ==
    /\ mpc = "reads_col"
    /\ col > Len(df_amplicons)
    /\ mpc' = "step4"
    /\ UNCHANGED <<genome_abundances, total, genomes_split, genome_counter, extracted,
                   df_amplicons, genome_memo, amplicon_memo, col, mexit, final_files,
                   runVars>>

\* STEP 4: the call art_illumina(OUTPUT_FOLDER, OUTPUT_FILENAME_PREFIX, READ_LENGTH,
\* SEQ_SYS, VERBOSE) binds its arguments before anything of the scope runs; with an
\* argument missing it raises TypeError.  A call that binds runs the pipeline of
\* ArtIllumina.run, which with every tool succeeding leaves both final files.
EnterArtIllumina ==
    /\ mpc = "step4"
    /\ IF ArgsPassed = ArgsDeclared
       THEN mexit' = "ok" /\ final_files' = {"R1", "R2"}
       ELSE mexit' = "TypeError" /\ UNCHANGED final_files
    /\ mpc' = "terminated"
    /\ UNCHANGED <<genome_abundances, total, genomes_split, genome_counter, extracted,
                   df_amplicons, genome_memo, amplicon_memo, col, runVars>>

NextMain ==
    \/ Normalize
    \/ SplitGenomes
    \/ AmpliconStep
    \/ MakeSamplers
    \/ GenomeCountRow
    \/ GenomeColDone
    \/ AmpliconReadsRow
    \/ ReadsColDone
    \/ EnterArtIllumina

SpecMain == InitMain /\ [][NextMain]_vars

\* ------------------------------------------------------------ claims
Left(r) == pc[r] = "exited"
BodyCompleted(r) == pc[r] \in {"finally", "cleanup", "exited"} /\ exc[r] = "none"
ToolsSucceeded(r) ==
    /\ \A i \in 1..Len(invoked[r]) : invoked[r][i].status = "ok"
    /\ \A m \in DOMAIN shufstatus[r] : shufstatus[r][m] = "ok"
OutRecords(r, m) == Records(outdir[r][m].content)

\* C1: once the scope has been exited, whether the body completed or raised, no
\* file matching tmp.sms.* remains in the temp directory, and every temp file that
\* was created has been removed exactly once.
C1_CleanupOnEveryExit ==
    \A r \in active :
        Left(r) => /\ GlobTmp(tempdir) = {}
                   /\ \A f \in created : CopiesIn(f, removed) = 1

\* C1 witness: the body raised after temp files had been written, and the scope
\* has been exited.
C1_Witness ==
    /\ Left(1)
    /\ exc[1] = "Exception"
    /\ UnshuffledName(1) \in created
    /\ Cardinality(created) >= 3

\* C2: after run() completes (every tool having exited with status 0), record i of
\* {prefix}_R1.fastq and record i of {prefix}_R2.fastq carry the same read
\* identifier, for every i.
C2_PairingPreserved ==
    \A r \in active :
        (BodyCompleted(r) /\ ToolsSucceeded(r)) =>
            /\ Len(OutRecords(r, 1)) = Len(OutRecords(r, 2))
            /\ \A i \in 1..Len(OutRecords(r, 1)) :
                   ReadId(OutRecords(r, 1)[i]) = ReadId(OutRecords(r, 2)[i])

\* "&" restored to "/" in every line of a record, as tr does
Restored(rec) == [l \in 1..Len(rec) |-> [i \in 1..Len(rec[l]) |->
                     IF rec[l][i] = "&" THEN "/" ELSE rec[l][i]]]
RestoredAll(recs) == [i \in 1..Len(recs) |-> Restored(recs[i])]

ShuffledOk(r, m) ==
    /\ m \in DOMAIN outdir[r]
    /\ m \in DOMAIN shufstatus[r]
    /\ shufstatus[r][m] = "ok"
    /\ UnshuffledName(m) \in DOMAIN tempdir

C6_AbortOnGeneratorFailure ==
    \A r \in active : \A i \in 1..Len(invoked[r]) :
        invoked[r][i].status = "fail" =>
            /\ i = Len(invoked[r])
            /\ pc[r] \in {"gen", "finally", "cleanup", "exited"}
            /\ UnshuffledName(1) \notin created
            /\ UnshuffledName(2) \notin created
            /\ DOMAIN outdir[r] = {}

\* C7: when the shuffle pipeline fails for either mate file the run fails, and
\* once it has ended no file exists under either final output name.
C7_NoPartialOutput ==
    \A r \in active :
        (Left(r) /\ \E m \in DOMAIN shufstatus[r] : shufstatus[r][m] = "fail") =>
            /\ exc[r] # "none"
            /\ DOMAIN outdir[r] = {}

RowsOf(g) == SelectSeq(df_amplicons, LAMBDA row : row.ref = g)

RECURSIVE SumReads(_)
SumReads(rows) == IF rows = <<>> THEN 0 ELSE Head(rows).n_reads + SumReads(Tail(rows))

Allocated == mpc = "step4" \/ (mpc = "terminated" /\ mexit \in {"TypeError", "ok"})

\* C3: after allocation, all amplicon rows of a genome carry the same
\* genome_n_reads, their n_reads are non-negative integers, and they sum to that
\* genome_n_reads exactly.
C3_AmpliconCountsSumToGenomeCount ==
    Allocated =>
        \A g \in Genomes :
            LET rows == RowsOf(g)
            IN  /\ \A i, j \in 1..Len(rows) : rows[i].genome_n_reads = rows[j].genome_n_reads
                /\ \A i \in 1..Len(rows) : rows[i].n_reads \in Nat
                /\ rows # <<>> => SumReads(rows) = rows[1].genome_n_reads

\* C3 witness: allocation is over and a genome with two amplicons got a read for
\* each of them.
C3_Witness ==
    /\ Allocated
    /\ \E g \in Genomes :
         /\ Len(RowsOf(g)) = 2
         /\ RowsOf(g)[1].n_reads = 1
         /\ RowsOf(g)[2].n_reads = 1

ValidRun ==
    /\ total > 0
    /\ \A g \in DOMAIN genome_abundances : genome_abundances[g][1] >= 0
    /\ \A g \in DOMAIN extracted : extracted[g] > 0

\* C5: a run from the main script with valid abundances and every external tool
\* succeeding terminates having produced both final files.
C5_MainProducesFinalFiles ==
    (mpc = "terminated" /\ ValidRun) => (mexit = "ok" /\ final_files = {"R1", "R2"})

\* C8: when the weights sum to a value <= 0 the run stops at the normalizer with
\* the invalid-abundance exit: nothing is split, sampled or generated and no
\* weight is rescaled.
C8_InvalidAbundanceStops ==
    (mpc # "read" /\ total <= 0) =>
        /\ mpc = "terminated"
        /\ mexit = "exit1"
        /\ ~genomes_split
        /\ genome_counter = 0
        /\ df_amplicons = <<>>
        /\ genome_memo = <<>>
        /\ amplicon_memo = <<>>
        /\ final_files = {}
        /\ \A g \in DOMAIN genome_abundances : genome_abundances[g][2] = Unit

\* C8 witness: the normalizer has stopped a run whose two weights sum to 0.
C8_Witness ==
    /\ mpc = "terminated"
    /\ mexit = "exit1"
    /\ total = 0
    /\ Cardinality(DOMAIN genome_abundances) = 2

\* C9: a genome with zero extracted amplicons does not crash the run.
C9_EmptyGenomeSkipped ==
    (\E g \in DOMAIN extracted : extracted[g] = 0) =>
        (mexit # "KeyError" /\ (mpc = "terminated" => mexit = "ok"))

\* C10: of two runs sharing a temp directory, neither concatenates, overwrites or
\* deletes a temp file the other created.
C10_NoInterference == ~interfered

\* np.random.randint(2 ** 63) is an argument of each run_once call: one seed is
\* drawn per invocation
SeedsDrawn(r) == Len(invoked[r])

\* the pairs the for loop has passed whose read count is not zero
NonZeroPassed(r) == {i \in 1..(idx[r] - 1) : n_reads[r][i] # 0}

\* C11: a (template, read_count) pair whose read_count is zero is skipped: the read
\* generator is invoked, and a simulation seed drawn, for the other pairs only.
C11_ZeroCountSkipped ==
    \A r \in active :
        /\ \A i \in 1..Len(invoked[r]) : invoked[r][i].n # 0
        /\ Len(invoked[r]) = Cardinality(NonZeroPassed(r))
        /\ SeedsDrawn(r) = Cardinality(NonZeroPassed(r))

\* the amplicon a per-amplicon mate file belongs to: its name without "1.fq" / "2.fq"
AmpliconOf(f) == SubSeq(f, 1, Len(f) - 4)

\* the records of tmp.sms.all_files_unshuffled<m>.fastq
UnshuffledRecords(m) == Records(tempdir[UnshuffledName(m)].content)

\* C12: the sorted mate-1 and mate-2 file lists enumerate the amplicons in the same
\* order, and record i of the concatenated mate-1 file and record i of the
\* concatenated mate-2 file are the two mates of one read pair.
C12_MateListsAligned ==
    \A r \in active :
        /\ pc[r] \in {"concat1", "concat2", "keygen", "shuffle1", "shuffle2"} =>
               /\ Len(all_r1_files[r]) = Len(all_r2_files[r])
               /\ \A i \in 1..Len(all_r1_files[r]) :
                      AmpliconOf(all_r1_files[r][i]) = AmpliconOf(all_r2_files[r][i])
        /\ pc[r] \in {"keygen", "shuffle1", "shuffle2"} =>
               /\ Len(UnshuffledRecords(1)) = Len(UnshuffledRecords(2))
               /\ \A i \in 1..Len(UnshuffledRecords(1)) :
                      ReadId(UnshuffledRecords(1)[i]) = ReadId(UnshuffledRecords(2)[i])

====
